---- MODULE Spec2Model ----
(***************************************************************************)
(* State-machine model of XbBuilder (src/src/xb-builder.c): the builder    *)
(* collects imports, node trees and GUID tokens; compile parses every      *)
(* import into a GNode forest, interns the strings, writes the node table  *)
(* and loads the blob into the builder's silo; ensure decides between the  *)
(* cached file and a fresh compile.                                        *)
(***************************************************************************)
EXTENDS Integers, Sequences, FiniteSets, TLC

\* ------------------------------------------------------------------ bounds
\* imports and node trees a builder is given, together
MaxInputs == 2
\* identity tokens appended to the accumulator
MaxTokens == 2

VARIABLES
  imports,   \* self->imports: sequence of XbBuilderImport
  nodes,     \* self->nodes: sequence of XbBuilderNode references (object ids)
  guid,      \* self->guid: the GString accumulator
  silo,      \* self->silo: the builder's current XbSilo
  files,     \* the file system: what each GFile holds
  bnodes,    \* the XbBuilderNode objects the caller owns (their compile slots persist)
  tokens,    \* history: the arguments of every xb_builder_append_guid call, in order
  last       \* history: the last API call and how it returned

vars == <<imports, nodes, guid, silo, files, bnodes, tokens, last>>

\* ------------------------------------------------------------ basic values
IGNORE_CDATA == "IGNORE_CDATA"
LITERAL_TEXT == "LITERAL_TEXT"

FLAG_LITERAL_TEXT == "FLAG_LITERAL_TEXT"
FLAG_NATIVE_LANGS == "FLAG_NATIVE_LANGS"
FLAG_IGNORE_INVALID == "FLAG_IGNORE_INVALID"

\* g_get_language_names() of the host
Locales == {"en", "C"}

\* sizes of the packed silo records
SizeofXbSiloHeader == 32
SizeofXbSiloNode == 18
SizeofXbSiloAttr == 8
SizeofSentinel == 1
SizeofGuint32 == 4

\* ------------------------------------------------------------ XbBuilderNode
\* a freshly constructed node: no text, no attributes, no flags, slots zeroed
BuilderNodeNew(element) ==
  [element |-> element, text |-> <<>>, attrs |-> <<>>, flags |-> {},
   children |-> <<>>, element_idx |-> 0, text_idx |-> 0, offset |-> 0]

HasFlag(bn, flag) == flag \in bn.flags

AddFlag(bn, flag) == [bn EXCEPT !.flags = @ \cup {flag}]

AddAttribute(bn, name, value) ==
  [bn EXCEPT !.attrs = Append(@, [name |-> name, value |-> value,
                                  name_idx |-> 0, value_idx |-> 0])]

SetText(bn, text) == [bn EXCEPT !.text = <<text>>]

GetText(bn) == bn.text

TextIsNull(bn) == bn.text = <<>>

\* xb_builder_node_size: the full record plus the attribute records
BuilderNodeSize(bn) == SizeofXbSiloNode + Len(bn.attrs) * SizeofXbSiloAttr

\* The node objects the caller has built before handing them to the builder:
\*   1: <p k="v"> with child 2: <q>hello</q>
\*   3: <x> carrying IGNORE_CDATA with child 4: <y/> (not flagged)
\*   5: <info> with child 6: <fn>f</fn>       (used as an import's info tree)
UserNodes ==
  << [AddAttribute(BuilderNodeNew("p"), "k", "v") EXCEPT !.children = <<2>>],
     SetText(BuilderNodeNew("q"), "hello"),
     [AddFlag(BuilderNodeNew("x"), IGNORE_CDATA) EXCEPT !.children = <<4>>],
     BuilderNodeNew("y"),
     [BuilderNodeNew("info") EXCEPT !.children = <<6>>],
     SetText(BuilderNodeNew("fn"), "f") >>

NodeRoots == {1, 3}
InfoRoots == {5}
NoInfo == 0

\* ------------------------------------------------------- tokenizer events
EvStart(name, attrs) == [t |-> "start", name |-> name, attrs |-> attrs, text |-> ""]
EvEnd == [t |-> "end", name |-> "", attrs |-> <<>>, text |-> ""]
EvText(text) == [t |-> "text", name |-> "", attrs |-> <<>>, text |-> text]
EvError == [t |-> "error", name |-> "", attrs |-> <<>>, text |-> ""]

Attr(name, value) == [name |-> name, value |-> value]

\* <a> <b>hello</b></a>
DocU == << EvStart("a", <<>>), EvText(" "), EvStart("b", <<>>), EvText("hello"),
           EvEnd, EvEnd >>
\* <r><x xml:lang="fr">bonjour</x><x xml:lang="en">hi</x></r>
DocV == << EvStart("r", <<>>),
           EvStart("x", <<Attr("xml:lang", "fr")>>), EvText("bonjour"), EvEnd,
           EvStart("x", <<Attr("xml:lang", "en")>>), EvText("hi"), EvEnd,
           EvEnd >>
\* <c><d>   (the stream ends with two elements open)
DocW == << EvStart("c", <<>>), EvStart("d", <<>>) >>
\* <e></f>  (the tokenizer reports the mismatched close tag)
DocX == << EvStart("e", <<>>), EvError >>
\* <a xml:lang="fr"><b></b></a>
DocZ == << EvStart("a", <<Attr("xml:lang", "fr")>>), EvStart("b", <<>>), EvText(""),
           EvEnd, EvEnd >>

\* <l><m/><n xml:lang="fr"/><o/></l>
DocS == << EvStart("l", <<>>),
           EvStart("m", <<>>), EvEnd,
           EvStart("n", <<Attr("xml:lang", "fr")>>), EvEnd,
           EvStart("o", <<>>), EvEnd,
           EvEnd >>

\* the text chunks that consist of g_ascii_isspace characters only
SpaceOnlyTexts == {" ", "  ", "\n", "\t"}

\* ------------------------------------------------------------ GNode forest
\* The GNode tree of XbBuilderCompileHelper is an arena: tree[i] is the i-th GNode
\* created, parent = 0 is helper->root (whose data is NULL), bn is the id of the
\* XbBuilderNode it references in objs.  g_node_append_data puts a node last among
\* its parent's children, so the children of p are the nodes with parent p in
\* creation order.  src is history: the import (its position in self->imports)
\* whose parse created the GNode, 0 for a tree added by xb_builder_import_node.
GNodeAppendData(tree, parent, bn, src) ==
  Append(tree, [parent |-> parent, bn |-> bn, src |-> src])

Data(h, n) == h.objs[h.tree[n].bn]

\* xb_builder_compile_node_tree: one GNode per node of the tree below bn, each
\* referencing the caller's object (g_object_ref, no copy, no flag inherited)
RECURSIVE CompileNodeTree(_, _, _, _, _)
RECURSIVE CompileNodeChildren(_, _, _, _, _, _)
CompileNodeTree(tree, objs, parent, bn, src) ==
  LET t1 == GNodeAppendData(tree, parent, bn, src)
  IN  CompileNodeChildren(t1, objs, Len(t1), objs[bn].children, 1, src)

CompileNodeChildren(tree, objs, n, children, i, src) ==
  IF i > Len(children) THEN tree
  ELSE CompileNodeChildren(CompileNodeTree(tree, objs, n, children[i], src),
                           objs, n, children, i + 1, src)

\* the xml:lang check of the start-element callback
LangNotNative(attrs) ==
  \E i \in 1..Len(attrs) : attrs[i].name = "xml:lang" /\ attrs[i].value \notin Locales

RECURSIVE AddAttributes(_, _, _)
AddAttributes(bn, attrs, i) ==
  IF i > Len(attrs) THEN bn
  ELSE AddAttributes(AddAttribute(bn, attrs[i].name, attrs[i].value), attrs, i + 1)

ParentIsIgnored(h) ==
  h.current # 0 /\ HasFlag(Data(h, h.current), IGNORE_CDATA)

\* a child of an ignored node is ignored
InheritFlag(h, bn) ==
  IF ParentIsIgnored(h) THEN AddFlag(bn, IGNORE_CDATA) ELSE bn

\* check if we should ignore the locale
CheckLocale(h, bn, attrs) ==
  IF /\ ~HasFlag(bn, IGNORE_CDATA)
     /\ FLAG_NATIVE_LANGS \in h.flags
     /\ LangNotNative(attrs)
  THEN AddFlag(bn, IGNORE_CDATA) ELSE bn

\* add attributes
CopyAttributes(bn, attrs) ==
  IF ~HasFlag(bn, IGNORE_CDATA) THEN AddAttributes(bn, attrs, 1) ELSE bn

\* helper->current = g_node_append_data (helper->current, bn), bn a new object
AppendNode(h, bn) ==
  [h EXCEPT !.objs = Append(@, bn),
            !.tree = GNodeAppendData(@, h.current, Len(h.objs) + 1, h.src),
            !.current = Len(h.tree) + 1]

\* xb_builder_compile_start_element_cb
StartElementCb(h, element_name, attrs) ==
  AppendNode(h, CopyAttributes(CheckLocale(h, InheritFlag(h, BuilderNodeNew(element_name)),
                                           attrs), attrs))

\* whether the end-element callback grafts the import's info tree
InfoGrafted(h) == h.tree[h.current].parent = 0 /\ h.info # NoInfo

\* xb_builder_compile_end_element_cb
EndElementCb(h) ==
  LET tree1 == IF InfoGrafted(h)
               THEN CompileNodeTree(h.tree, h.objs, h.current, h.info, h.src)
               ELSE h.tree
  IN  [h EXCEPT !.tree = tree1, !.current = h.tree[h.current].parent]

\* xb_builder_compile_text_cb
TextCb(h, text) ==
  LET id == h.tree[h.current].bn
      bn == h.objs[id]
      bn1 == IF FLAG_LITERAL_TEXT \in h.flags THEN AddFlag(bn, LITERAL_TEXT) ELSE bn
  IN  IF Len(text) = 0 THEN h
      ELSE IF HasFlag(bn, IGNORE_CDATA) THEN h
      ELSE IF text \in SpaceOnlyTexts THEN h
      ELSE [h EXCEPT !.objs[id] = SetText(bn1, text)]

\* Evaluation note: the folds of this module compare their accumulator with
\* itself (h = h, always true) before they use it, so that the value of each step
\* is computed before the next step starts instead of being left pending.

\* the callback the parser runs for one event
EventCb(h, ev) ==
  CASE ev.t = "start" -> StartElementCb(h, ev.name, ev.attrs)
    [] ev.t = "end"   -> EndElementCb(h)
    [] ev.t = "text"  -> TextCb(h, ev.text)
    [] OTHER          -> h

\* g_markup_parse_context_parse over the stream: the callbacks run event by event;
\* a tokenizer error ends the parse with what was built so far left in the tree
RECURSIVE ParseEvents(_, _, _)
ParseEvents(h, evs, i) ==
  IF h # h \/ i > Len(evs) THEN [ok |-> TRUE, h |-> h]
  ELSE IF evs[i].t = "error" THEN [ok |-> FALSE, h |-> h]
  ELSE ParseEvents(EventCb(h, evs[i]), evs, i + 1)

\* more opening than closing: "Mismatched XML" when the cursor is not at the root
MismatchedXml(r) ==
  IF r.ok /\ r.h.current # 0 THEN [ok |-> FALSE, h |-> r.h] ELSE r

\* xb_builder_compile_import: FALSE on a tokenizer error, or when the cursor is
\* not back at the root at the end of the stream
CompileImport(h, import) ==
  MismatchedXml(ParseEvents([h EXCEPT !.info = import.info], import.doc, 1))

\* ------------------------------------------------------------- traversals
RECURSIVE ChildrenFrom(_, _, _)
ChildrenFrom(tree, p, i) ==
  IF i > Len(tree) THEN <<>>
  ELSE (IF tree[i].parent = p THEN <<i>> ELSE <<>>) \o ChildrenFrom(tree, p, i + 1)

\* the children of GNode p, first to last
Children(tree, p) == ChildrenFrom(tree, p, 1)

\* g_node_depth: 1 for the root, 2 for its children
RECURSIVE GNodeDepth(_, _)
GNodeDepth(tree, n) == IF n = 0 THEN 1 ELSE 1 + GNodeDepth(tree, tree[n].parent)

\* g_node_next_sibling: 0 when n is its parent's last child
GNodeNextSibling(tree, n) ==
  LET later == {i \in (n + 1)..Len(tree) : tree[i].parent = tree[n].parent}
  IN  IF later = {} THEN 0 ELSE CHOOSE i \in later : \A j \in later : i <= j

\* g_node_traverse (G_PRE_ORDER): the GNodes below p, a node before its children
RECURSIVE PreOrderBelow(_, _)
RECURSIVE PreOrderEach(_, _, _)
PreOrderBelow(tree, p) == PreOrderEach(tree, Children(tree, p), 1)

PreOrderEach(tree, kids, i) ==
  IF i > Len(kids) THEN <<>>
  ELSE <<kids[i]>> \o PreOrderBelow(tree, kids[i]) \o PreOrderEach(tree, kids, i + 1)

PreOrder(tree) == PreOrderBelow(tree, 0)

MaxDepth(tree) ==
  IF tree = <<>> THEN 1
  ELSE LET D == {GNodeDepth(tree, n) : n \in 1..Len(tree)}
       IN  CHOOSE d \in D : \A e \in D : e <= d

\* g_node_traverse (G_LEVEL_ORDER): level by level, each level left to right
RECURSIVE LevelOrderFrom(_, _, _)
LevelOrderFrom(tree, pre, d) ==
  IF d > MaxDepth(tree) THEN <<>>
  ELSE SelectSeq(pre, LAMBDA n : GNodeDepth(tree, n) = d) \o LevelOrderFrom(tree, pre, d + 1)

LevelOrder(tree) == LevelOrderFrom(tree, PreOrder(tree), 2)

\* every traversal callback returns at once for a node carrying IGNORE_CDATA
\* (the root, whose data is NULL, is not in the traversal sequences)
Skipped(h, n) == HasFlag(Data(h, n), IGNORE_CDATA)

\* ------------------------------------------------------------ string table
\* helper->strtab is the sequence of the strings appended, each followed by a NUL;
\* strtab_len is helper->strtab->len.  StrtabLen counts the bytes of such a sequence.
RECURSIVE StrtabLen(_)
StrtabLen(strtab) ==
  IF strtab = <<>> THEN 0
  ELSE Len(strtab[Len(strtab)]) + 1 + StrtabLen(SubSeq(strtab, 1, Len(strtab) - 1))

\* the offset at which the i-th string of the table starts
StrStart(strtab, i) == StrtabLen(SubSeq(strtab, 1, i - 1))

EmptyHash == [s \in {} |-> 0]

\* a variant that appends without consulting the hash table
AddToStrtabNoLookup(h, str) ==
  LET idx == h.strtab_len
  IN  [h |-> [h EXCEPT !.strtab = Append(@, str),
                       !.strtab_len = @ + Len(str) + 1,
                       !.strtab_hash = (str :> idx) @@ @],
       idx |-> idx]

\* xb_builder_compile_add_to_strtab
AddToStrtab(h, str) ==
  IF str \in DOMAIN h.strtab_hash
  THEN [h |-> h, idx |-> h.strtab_hash[str]]
  ELSE LET idx == h.strtab_len
       IN  [h |-> [h EXCEPT !.strtab = Append(@, str),
                            !.strtab_len = @ + Len(str) + 1,
                            !.strtab_hash = (str :> idx) @@ @],
            idx |-> idx]

\* a variant of the element-name pass that does not skip ignored nodes
ElementNamesCbAll(h, n) ==
  LET r == AddToStrtab(h, Data(h, n).element)
  IN  [r.h EXCEPT !.objs[h.tree[n].bn].element_idx = r.idx]

\* xb_builder_strtab_element_names_cb
ElementNamesCb(h, n) ==
  IF Skipped(h, n) THEN h
  ELSE LET r == AddToStrtab(h, Data(h, n).element)
       IN  [r.h EXCEPT !.objs[h.tree[n].bn].element_idx = r.idx]

RECURSIVE AttrNames(_, _, _)
AttrNames(h, id, i) ==
  IF i > Len(h.objs[id].attrs) THEN h
  ELSE LET r == AddToStrtab(h, h.objs[id].attrs[i].name)
       IN  AttrNames([r.h EXCEPT !.objs[id].attrs[i].name_idx = r.idx], id, i + 1)

\* xb_builder_strtab_attr_name_cb
AttrNameCb(h, n) == IF Skipped(h, n) THEN h ELSE AttrNames(h, h.tree[n].bn, 1)

RECURSIVE AttrValues(_, _, _)
AttrValues(h, id, i) ==
  IF i > Len(h.objs[id].attrs) THEN h
  ELSE LET r == AddToStrtab(h, h.objs[id].attrs[i].value)
       IN  AttrValues([r.h EXCEPT !.objs[id].attrs[i].value_idx = r.idx], id, i + 1)

\* xb_builder_strtab_attr_value_cb
AttrValueCb(h, n) == IF Skipped(h, n) THEN h ELSE AttrValues(h, h.tree[n].bn, 1)

\* xb_builder_strtab_text_cb
StrtabTextCb(h, n) ==
  IF Skipped(h, n) THEN h
  ELSE IF TextIsNull(Data(h, n)) THEN h
  ELSE LET r == AddToStrtab(h, GetText(Data(h, n))[1])
       IN  [r.h EXCEPT !.objs[h.tree[n].bn].text_idx = r.idx]

StrtabCb(pass, h, n) ==
  CASE pass = "element_names" -> ElementNamesCb(h, n)
    [] pass = "attr_name"     -> AttrNameCb(h, n)
    [] pass = "attr_value"    -> AttrValueCb(h, n)
    [] pass = "text"          -> StrtabTextCb(h, n)

\* g_node_traverse with one of the string-table callbacks
RECURSIVE Traverse(_, _, _, _)
Traverse(pass, h, order, i) ==
  IF h # h \/ i > Len(order) THEN h
  ELSE Traverse(pass, StrtabCb(pass, h, order[i]), order, i + 1)

\* --------------------------------------------------------------- node table
\* xb_builder_nodetab_size_cb, and its traversal
NodetabSizeCb(h, sz, n) ==
  IF Skipped(h, n) THEN sz
  ELSE sz + BuilderNodeSize(Data(h, n)) + SizeofSentinel
          - (IF TextIsNull(Data(h, n)) THEN SizeofGuint32 ELSE 0)

RECURSIVE NodetabSize(_, _, _, _)
NodetabSize(h, sz, order, i) ==
  IF sz # sz \/ i > Len(order) THEN sz
  ELSE NodetabSize(h, NodetabSizeCb(h, sz, order[i]), order, i + 1)

\* A record of the node table as appended to buf.  The text field is appended
\* only when has_text is set; it reads 0 here when it is elided.  gn and off are
\* history: the GNode the record was written for (0 for a sentinel) and the
\* offset in buf at which the record starts.
Sentinel(off) ==
  [is_node |-> FALSE, has_text |-> FALSE, nr_attrs |-> 0, element_name |-> 0,
   next |-> 0, parent |-> 0, text |-> 0, attrs |-> <<>>, gn |-> 0, off |-> off]

\* the bytes a record takes in buf (xb_silo_node_get_size for the sentinel)
RecSize(rec) ==
  IF rec.is_node
  THEN SizeofXbSiloNode - (IF rec.has_text THEN 0 ELSE SizeofGuint32)
       + Len(rec.attrs) * SizeofXbSiloAttr
  ELSE SizeofSentinel

\* XB_SILO_APPENDBUF of one record; w = [h, buf, len, level], len is buf->len
AppendRec(w, rec) == [w EXCEPT !.buf = Append(@, rec), !.len = @ + RecSize(rec)]

\* xb_builder_nodetab_write_sentinel, count times
RECURSIVE WriteSentinels(_, _)
WriteSentinels(w, count) ==
  IF w # w \/ count <= 0 THEN w
  ELSE WriteSentinels(AppendRec(w, Sentinel(w.len)), count - 1)

\* the XbSiloNode xb_builder_nodetab_write_node fills in, and its attribute records
NodeRecord(bn, n, off) ==
  [is_node |-> TRUE, has_text |-> ~TextIsNull(bn), nr_attrs |-> Len(bn.attrs) % 256,
   element_name |-> bn.element_idx, next |-> 0, parent |-> 0,
   text |-> IF TextIsNull(bn) THEN 0 ELSE bn.text_idx,
   attrs |-> [i \in 1..Len(bn.attrs) |->
                [attr_name |-> bn.attrs[i].name_idx, attr_value |-> bn.attrs[i].value_idx]],
   gn |-> n, off |-> off]

\* xb_builder_nodetab_write_node: the node's offset is buf->len, then the record
NodetabWriteNode(w, n) ==
  AppendRec([w EXCEPT !.h.objs[w.h.tree[n].bn].offset = w.len],
            NodeRecord(Data(w.h, n), n, w.len))

\* the sentinels written before a node at depth: for (i = level; i >= depth; i--)
SentinelsBefore(level, depth) == IF level >= depth THEN level - depth + 1 ELSE 0

\* the sentinels written after the traversal: for (i = level - 1; i > 0; i--)
SentinelsAfter(level) == IF level > 0 THEN level - 1 ELSE 0

\* xb_builder_nodetab_write_cb
NodetabWriteCb(w, n) ==
  IF Skipped(w.h, n) THEN w
  ELSE [NodetabWriteNode(
          WriteSentinels(w, SentinelsBefore(w.level, GNodeDepth(w.h.tree, n))), n)
        EXCEPT !.level = GNodeDepth(w.h.tree, n)]

RECURSIVE NodetabWrite(_, _, _)
NodetabWrite(w, order, i) ==
  IF w # w \/ i > Len(order) THEN w
  ELSE NodetabWrite(NodetabWriteCb(w, order[i]), order, i + 1)

\* the flush after the traversal of xb_builder_compile
WriteTrailing(w) == WriteSentinels(w, SentinelsAfter(w.level))

\* xb_builder_get_node: the record that starts at offset off of buf (0: none does)
RecAt(recs, off) ==
  LET K == {k \in 1..Len(recs) : recs[k].off = off}
  IN  IF K = {} THEN 0 ELSE CHOOSE k \in K : TRUE

\* xb_builder_nodetab_fix_cb
NodetabFixCb(w, n) ==
  IF Skipped(w.h, n) THEN w
  ELSE LET k == RecAt(w.buf, Data(w.h, n).offset)
           n2 == w.h.tree[n].parent
           n3 == GNodeNextSibling(w.h.tree, n)
           parent == IF n2 # 0 THEN Data(w.h, n2).offset ELSE w.buf[k].parent
           next == IF n3 # 0 THEN Data(w.h, n3).offset ELSE w.buf[k].next
       IN  IF k = 0 THEN w
           ELSE [w EXCEPT !.buf[k].parent = parent, !.buf[k].next = next]

RECURSIVE NodetabFix(_, _, _)
NodetabFix(w, order, i) ==
  IF w # w \/ i > Len(order) THEN w
  ELSE NodetabFix(NodetabFixCb(w, order[i]), order, i + 1)

\* --------------------------------------------------------------------- GUID
\* 16 zero bytes: uuid_clear, and the .guid = { 0x0 } of a fresh header
UuidClear == <<>>

\* uuid_generate_sha1: the digest is identified by the text it is taken over
\* (SHA-1 is taken to be collision free and never all zero)
UuidGenerateSha1(ns, name) == <<ns, name>>

\* uuid_unparse: the printed form of 16 bytes
UuidUnparse(uuid) == <<"uuid", uuid>>

\* a NULL string
NULL == <<>>

\* xb_builder_generate_guid
GenerateGuid(acc) == UuidUnparse(UuidGenerateSha1(UuidClear, acc))

\* the guid field xb_builder_compile writes into the header
HeaderGuid(acc) ==
  IF Len(acc) > 0 THEN UuidGenerateSha1(UuidClear, acc) ELSE UuidClear

\* --------------------------------------------------------------------- XbSilo
NoMeta == [imports |-> <<>>, nodes |-> <<>>, flags |-> {}, acc |-> "",
           tree |-> <<>>, objs |-> <<>>, failed |-> {}, buflen |-> 0]

\* xb_silo_new: nothing loaded.  A loaded silo holds the blob: header, node table
\* and string table; meta is history (what the blob was compiled from).
SiloNew ==
  [valid |-> FALSE, hdr |-> [strtab |-> 0, strtab_ntags |-> 0, guid |-> UuidClear],
   nodetab |-> <<>>, strtab |-> <<>>, meta |-> NoMeta]

\* xb_silo_get_guid: NULL until a blob is loaded
SiloGetGuid(s) == IF s.valid THEN UuidUnparse(s.hdr.guid) ELSE NULL

\* ------------------------------------------------------------------- compile
\* the loop over self->imports; failed is history (the imports whose parse failed)
RECURSIVE BuildImports(_, _, _, _)
RECURSIVE ImportCompiled(_, _, _, _, _)
BuildImports(h, imps, i, failed) ==
  IF i > Len(imps) THEN [ok |-> TRUE, h |-> h, failed |-> failed, at |-> 0]
  ELSE ImportCompiled(CompileImport([h EXCEPT !.current = 0, !.src = i], imps[i]),
                      h.flags, imps, i, failed)

\* what the loop does with the result r of xb_builder_compile_import for import i
ImportCompiled(r, flags, imps, i, failed) ==
  IF r.ok THEN BuildImports(r.h, imps, i + 1, failed)
  ELSE IF FLAG_IGNORE_INVALID \in flags
       THEN BuildImports(r.h, imps, i + 1, failed \cup {i})
       ELSE [ok |-> FALSE, h |-> r.h, failed |-> failed \cup {i}, at |-> i]

\* the loop over self->nodes
RECURSIVE BuildNodes(_, _, _)
BuildNodes(h, bns, i) ==
  IF h # h \/ i > Len(bns) THEN h
  ELSE BuildNodes([h EXCEPT !.tree = CompileNodeTree(h.tree, h.objs, 0, bns[i], 0)],
                  bns, i + 1)

HelperNew(objs, flags) ==
  [tree |-> <<>>, objs |-> objs, current |-> 0, flags |-> flags, info |-> NoInfo,
   src |-> 0, strtab |-> <<>>, strtab_len |-> 0, strtab_hash |-> EmptyHash]

\* the passes that intern attribute names, attribute values and texts
StrtabRest(h, lvl) ==
  Traverse("text", Traverse("attr_value", Traverse("attr_name", h, lvl, 1), lvl, 1), lvl, 1)

\* the node table: written in pre-order, flushed, then fixed up; w is
\* XbBuilderNodetabHelper with the compile helper h beside it
NodetabBuild(h, pre) ==
  NodetabFix(WriteTrailing(NodetabWrite([h |-> h, buf |-> <<>>,
                                         len |-> SizeofXbSiloHeader, level |-> 0],
                                        pre, 1)), pre, 1)

\* the blob loaded into self->silo: header, node table, string table
CompileOutput(nodetabsz, ntags, w, m) ==
  [ok |-> TRUE, at |-> 0,
   silo |-> [valid |-> TRUE,
             hdr |-> [strtab |-> nodetabsz, strtab_ntags |-> ntags,
                      guid |-> HeaderGuid(m.acc)],
             nodetab |-> w.buf,
             strtab |-> w.h.strtab,
             meta |-> [m EXCEPT !.tree = w.h.tree, !.objs = w.h.objs, !.buflen = w.len]],
   objs |-> w.h.objs]

\* from the element-name pass on: h1 is the helper after that pass
CompileTables(nodetabsz, h1, pre, lvl, m) ==
  CompileOutput(nodetabsz, Cardinality(DOMAIN h1.strtab_hash),
                NodetabBuild(StrtabRest(h1, lvl), pre), m)

\* the size pass and the element-name pass over the forest of h
CompilePasses(h, pre, lvl, m) ==
  CompileTables(NodetabSize(h, SizeofXbSiloHeader, pre, 1),
                Traverse("element_names", h, lvl, 1), pre, lvl, m)

\* the forest complete: its traversal orders, then the passes
CompileForest(h, m) == CompilePasses(h, PreOrder(h.tree), LevelOrder(h.tree), m)

\* after the loop over the imports: b is its result
CompileBuilt(b, bns, objs, m) ==
  IF ~b.ok THEN [ok |-> FALSE, at |-> b.at, silo |-> SiloNew, objs |-> objs]
  ELSE CompileForest(BuildNodes(b.h, bns, 1), [m EXCEPT !.failed = b.failed])

\* xb_builder_compile up to the blob: [ok, at, silo, objs]
CompileBlob(imps, bns, acc, objs, flags) ==
  CompileBuilt(BuildImports(HelperNew(objs, flags), imps, 1, {}), bns, objs,
               [NoMeta EXCEPT !.imports = imps, !.nodes = bns, !.flags = flags,
                              !.acc = acc])

\* ------------------------------------------------------------------ inputs
Import(id, doc, info) == [guid |-> id, doc |-> doc, info |-> info]

\* what xb_builder_import_xml is called with: the XML and the identity derived from it
XmlInputs == { Import("u", DocU, NoInfo), Import("v", DocV, NoInfo),
               Import("w", DocW, NoInfo), Import("x", DocX, NoInfo),
               Import("s", DocS, NoInfo) }

\* what xb_builder_import_file is called with: the file's XML, its identity, the info tree
FileInputs == { Import("z", DocZ, i) : i \in InfoRoots }

\* the smaller choice of XML used where the cache file is the subject
EnsureXmlInputs == { Import("v", DocV, NoInfo), Import("w", DocW, NoInfo) }

\* what xb_builder_append_guid is called with by the caller
GuidInputs == {"", "g"}

FlagInputs == { {}, {FLAG_NATIVE_LANGS}, {FLAG_IGNORE_INVALID},
                {FLAG_NATIVE_LANGS, FLAG_IGNORE_INVALID, FLAG_LITERAL_TEXT} }

Files == {"f"}

\* a cache file left by an earlier builder that imported DocV and compiled it
\* without flags
EarlierSilo ==
  CompileBlob(<<Import("v", DocV, NoInfo)>>, <<>>, "v", UserNodes, {}).silo

\* -------------------------------------------------------------------- state
\* The record of an API call: whether it succeeded, its flags, the branch
\* xb_builder_ensure took, whether it ran xb_builder_compile and
\* xb_silo_save_to_file, the import a failed compile names in its error (0: none),
\* the file, and, when the call before it was a successful xb_builder_ensure of
\* the same file, the branch that call took ("" otherwise).
Call(op, ok) ==
  [op |-> op, ok |-> ok, flags |-> {}, path |-> "", compiled |-> FALSE,
   wrote |-> FALSE, at |-> 0, file |-> "", again |-> ""]

\* xb_builder_init, before any call; no file exists
Init ==
  /\ imports = <<>>
  /\ nodes = <<>>
  /\ guid = ""
  /\ silo = SiloNew
  /\ files = [f \in Files |-> SiloNew]
  /\ bnodes = UserNodes
  /\ tokens = <<>>
  /\ last = Call("new", TRUE)

\* xb_builder_init; the file may hold the silo an earlier builder saved
InitEnsure ==
  /\ imports = <<>>
  /\ nodes = <<>>
  /\ guid = ""
  /\ silo = SiloNew
  /\ files \in [Files -> {SiloNew, EarlierSilo}]
  /\ bnodes = UserNodes
  /\ tokens = <<>>
  /\ last = Call("new", TRUE)

\* the accumulator after xb_builder_append_guid
AppendedGuid(acc, token) ==
  IF Len(acc) > 0 THEN acc \o "&" \o token ELSE acc \o token

\* xb_builder_append_guid
AppendGuid ==
  \E token \in GuidInputs :
    /\ Len(tokens) < MaxTokens
    /\ guid' = AppendedGuid(guid, token)
    /\ tokens' = Append(tokens, token)
    /\ last' = Call("append_guid", TRUE)
    /\ UNCHANGED <<imports, nodes, silo, files, bnodes>>

\* xb_builder_import_xml
ImportXml(inputs) ==
  \E import \in inputs :
    /\ Len(imports) + Len(nodes) < MaxInputs
    /\ Len(tokens) < MaxTokens
    /\ guid' = AppendedGuid(guid, import.guid)
    /\ tokens' = Append(tokens, import.guid)
    /\ imports' = Append(imports, import)
    /\ last' = Call("import_xml", TRUE)
    /\ UNCHANGED <<nodes, silo, files, bnodes>>

\* xb_builder_import_file
ImportFile(inputs) ==
  \E import \in inputs :
    /\ Len(imports) + Len(nodes) < MaxInputs
    /\ Len(tokens) < MaxTokens
    /\ guid' = AppendedGuid(guid, import.guid)
    /\ tokens' = Append(tokens, import.guid)
    /\ imports' = Append(imports, import)
    /\ last' = Call("import_file", TRUE)
    /\ UNCHANGED <<nodes, silo, files, bnodes>>

\* xb_builder_import_node
ImportNode(roots) ==
  \E bn \in roots :
    /\ Len(imports) + Len(nodes) < MaxInputs
    /\ nodes' = Append(nodes, bn)
    /\ last' = Call("import_node", TRUE)
    /\ UNCHANGED <<imports, guid, silo, files, bnodes, tokens>>

\* the caller's node objects after a compile (the first Len(UserNodes) objects)
CallerNodes(objs) == SubSeq(objs, 1, Len(UserNodes))

\* xb_builder_compile
Compile ==
  \E flags \in FlagInputs :
    \E r \in {CompileBlob(imports, nodes, guid, bnodes, flags)} :
        /\ silo' = IF r.ok THEN r.silo ELSE silo
        /\ bnodes' = CallerNodes(r.objs)
        /\ last' = [Call("compile", r.ok) EXCEPT !.flags = flags, !.path = "compile",
                                                 !.compiled = TRUE, !.at = r.at]
        /\ UNCHANGED <<imports, nodes, guid, files, tokens>>

\* a variant of the first test that never finds the file unchanged
EnsureUnchangedNever(silo_tmp, self_silo) == FALSE

\* the first test of xb_builder_ensure: the file's GUID is that of the loaded silo
EnsureUnchanged(silo_tmp, self_silo) == SiloGetGuid(silo_tmp) = SiloGetGuid(self_silo)

\* the second test: the file's GUID is the one generated from the accumulator
EnsureReload(silo_tmp, acc) == SiloGetGuid(silo_tmp) = GenerateGuid(acc)

\* xb_builder_ensure; saved is whether xb_silo_save_to_file succeeds
Ensure ==
  \E file \in Files, flags \in FlagInputs :
    LET silo_tmp == files[file]
        call == [Call("ensure", TRUE) EXCEPT
                   !.file = file, !.flags = flags,
                   !.again = IF last.op = "ensure" /\ last.ok /\ last.file = file
                             THEN last.path ELSE ""]
    IN  /\ UNCHANGED <<imports, nodes, guid, tokens>>
        /\ IF silo_tmp.valid /\ EnsureUnchanged(silo_tmp, silo)
           THEN /\ last' = [call EXCEPT !.path = "unchanged"]
                /\ UNCHANGED <<silo, files, bnodes>>
           ELSE IF silo_tmp.valid /\ EnsureReload(silo_tmp, guid)
           THEN /\ silo' = silo_tmp
                /\ last' = [call EXCEPT !.path = "reload"]
                /\ UNCHANGED <<files, bnodes>>
           ELSE \E r \in {CompileBlob(imports, nodes, guid, bnodes, flags)} :
                /\ silo' = IF r.ok THEN r.silo ELSE silo
                /\ bnodes' = CallerNodes(r.objs)
                /\ \E saved \in BOOLEAN :
                     /\ files' = IF r.ok /\ saved THEN [files EXCEPT ![file] = r.silo]
                                 ELSE files
                     /\ last' = [call EXCEPT !.path = "compile", !.ok = r.ok /\ saved,
                                             !.compiled = TRUE, !.wrote = r.ok, !.at = r.at]

\* the compile pipeline: imports of every kind, node trees, compile
Next ==
  \/ ImportXml(XmlInputs)
  \/ ImportFile(FileInputs)
  \/ ImportNode(NodeRoots)
  \/ Compile

Spec == Init /\ [][Next]_vars

\* the cache: GUID tokens, imports, compile and ensure
NextEnsure ==
  \/ AppendGuid
  \/ ImportXml(EnsureXmlInputs)
  \/ Compile
  \/ Ensure

SpecEnsure == InitEnsure /\ [][NextEnsure]_vars

\* ------------------------------------------------------------ observations
\* the depth after the first k records: +1 per node record, -1 per sentinel
RECURSIVE RunningDepth(_, _)
RunningDepth(recs, k) ==
  IF k = 0 THEN 0
  ELSE RunningDepth(recs, k - 1) + (IF recs[k].is_node THEN 1 ELSE -1)

NodeRecs(s) == {k \in 1..Len(s.nodetab) : s.nodetab[k].is_node}

SentinelRecs(s) == {k \in 1..Len(s.nodetab) : ~s.nodetab[k].is_node}

\* the XbBuilderNode a GNode of a compiled forest refers to
BnOf(s, n) == s.meta.objs[s.meta.tree[n].bn]

\* GNode n, or one of its ancestors, carries IGNORE_CDATA
RECURSIVE InIgnoredSubtree(_, _)
InIgnoredSubtree(s, n) ==
  IF n = 0 THEN FALSE
  ELSE HasFlag(BnOf(s, n), IGNORE_CDATA) \/ InIgnoredSubtree(s, s.meta.tree[n].parent)

\* the GNodes that have a node record in the output
Emitted(s) == {s.nodetab[k].gn : k \in NodeRecs(s)}

\* the string that starts at offset off of the string table (NULL: none does)
StrAt(strtab, off) ==
  LET I == {i \in 1..Len(strtab) : StrStart(strtab, i) = off}
  IN  IF I = {} THEN NULL ELSE <<strtab[CHOOSE i \in I : TRUE]>>

\* the parse of a document fails: the tokenizer reports an error, or the stream
\* ends with an element still open
NrEvents(doc, t) == Cardinality({i \in 1..Len(doc) : doc[i].t = t})

ParseFails(doc) == NrEvents(doc, "error") > 0 \/ NrEvents(doc, "start") # NrEvents(doc, "end")

FailingImports(imps) == {k \in 1..Len(imps) : ParseFails(imps[k].doc)}

\* t1 & t2 & ... & tn
RECURSIVE Join(_)
Join(ts) ==
  IF ts = <<>> THEN ""
  ELSE IF Len(ts) = 1 THEN ts[1]
  ELSE Join(SubSeq(ts, 1, Len(ts) - 1)) \o "&" \o ts[Len(ts)]

Identities(imps) == [i \in 1..Len(imps) |-> imps[i].guid]

\* the silos the state holds: the builder's and the files'
Silos == {silo} \cup {files[f] : f \in Files}

\* the node record written for GNode n
RecOf(s, n) == CHOOSE k \in NodeRecs(s) : s.nodetab[k].gn = n

\* the siblings after GNode n that do not carry IGNORE_CDATA
FollowingLive(s, n) ==
  {m \in (n + 1)..Len(s.meta.tree) :
     /\ s.meta.tree[m].parent = s.meta.tree[n].parent
     /\ ~HasFlag(BnOf(s, m), IGNORE_CDATA)}

\* some XbBuilderNode object is referenced by two GNodes of the forest
SharedObjects(s) ==
  \E n, m \in 1..Len(s.meta.tree) : n # m /\ s.meta.tree[n].bn = s.meta.tree[m].bn

\* ------------------------------------------------------------------- claims
\* the first import whose parse fails
FirstFailing(imps) ==
  CHOOSE k \in FailingImports(imps) : \A j \in FailingImports(imps) : k <= j

\* the GNodes of a compiled forest that the parse of import j created
GNodesOf(s, j) == {n \in 1..Len(s.meta.tree) : s.meta.tree[n].src = j}

\* the node table and the string table of a silo
Output(s) == <<s.nodetab, s.strtab>>

\* C1: tree balance.  In the node table of every compiled silo, counting +1 per
\* node record and -1 per sentinel, the running sum is never negative and ends
\* at zero; the sentinels are as many as the node records.
C1_TreeBalance ==
  silo.valid =>
    /\ \A k \in 1..Len(silo.nodetab) : RunningDepth(silo.nodetab, k) >= 0
    /\ RunningDepth(silo.nodetab, Len(silo.nodetab)) = 0
    /\ Cardinality(SentinelRecs(silo)) = Cardinality(NodeRecs(silo))

\* C2: ensure is up to date.  After every successful xb_builder_ensure(file) the
\* silo returned (the builder's silo) has the GUID generated from the accumulator,
\* and the file holds a silo with that GUID.  Stated for the accumulators that
\* are not empty; the empty one is the case of C4.
C2_EnsureUpToDate ==
  (last.op = "ensure" /\ last.ok /\ Len(guid) > 0) =>
    /\ SiloGetGuid(silo) = GenerateGuid(guid)
    /\ files[last.file].valid
    /\ SiloGetGuid(files[last.file]) = GenerateGuid(guid)

\* C2, the case of inputs added after an earlier ensure: ensure has returned the
\* loaded silo unchanged although the accumulator, not empty, generates another GUID
C2_StaleSiloReturned ==
  /\ last.op = "ensure" /\ last.ok /\ last.path = "unchanged"
  /\ Len(guid) > 0
  /\ SiloGetGuid(silo) # GenerateGuid(guid)

\* C3: ensure idempotence.  An xb_builder_ensure(f) that directly follows a
\* successful xb_builder_ensure(f) succeeds by finding the file's GUID equal to
\* that of the builder's silo: it neither compiles nor writes the file.
C3_EnsureIdempotent ==
  (last.op = "ensure" /\ last.again # "") =>
    /\ last.ok
    /\ last.path = "unchanged"
    /\ ~last.compiled
    /\ ~last.wrote
    /\ files[last.file].valid
    /\ SiloGetGuid(files[last.file]) = SiloGetGuid(silo)

\* C3's case: the first ensure compiled and saved, the second returned the silo
C3_SecondEnsureAfterCompile ==
  last.op = "ensure" /\ last.again = "compile" /\ last.path = "unchanged"

\* C4: the header GUID is the accumulator GUID.  After every successful compile
\* the guid of the header, printed, is the GUID xb_builder_generate_guid derives
\* from the accumulator.
C4_HeaderGuidIsAccumulatorGuid ==
  (last.op = "compile" /\ last.ok) => SiloGetGuid(silo) = GenerateGuid(guid)

\* C5: IGNORE_INVALID skips a failing import.  When some import fails to parse:
\* with IGNORE_INVALID the compile succeeds, no node of a failing import is in the
\* output, every live node of the other imports is, and the parse of every import
\* starts at the root; without it the compile fails naming the failing import.
C5_IgnoreInvalidSkips ==
  (last.op = "compile" /\ FailingImports(imports) # {}) =>
    IF FLAG_IGNORE_INVALID \in last.flags
    THEN /\ last.ok
         /\ \A n \in Emitted(silo) : silo.meta.tree[n].src \notin FailingImports(imports)
         /\ \A n \in 1..Len(silo.meta.tree) :
              (/\ silo.meta.tree[n].src \notin FailingImports(imports)
               /\ ~InIgnoredSubtree(silo, n)) => n \in Emitted(silo)
         /\ \A j \in 1..Len(imports) :
              \A n \in GNodesOf(silo, j) :
                (\A m \in GNodesOf(silo, j) : n <= m) => silo.meta.tree[n].parent = 0
    ELSE /\ ~last.ok
         /\ last.at = FirstFailing(imports)

\* C6: the GUID accumulator is the tokens appended, joined by one '&' between
\* consecutive tokens.
C6_AccumulatorJoin == guid = Join(tokens)

\* C7: the GUID depends on the flags that change the output.  Two silos compiled
\* from the same identities under different flags with different outputs have
\* different header GUIDs, and ensure does not return, without compiling, a silo
\* compiled under other flags whose output differs from what its own flags give.
C7_GuidDependsOnFlags ==
  /\ \A a, b \in Silos :
       (/\ a.valid /\ b.valid
        /\ Identities(a.meta.imports) = Identities(b.meta.imports)
        /\ a.meta.flags # b.meta.flags
        /\ Output(a) # Output(b)) => a.hdr.guid # b.hdr.guid
  /\ (/\ last.op = "ensure" /\ last.ok /\ ~last.compiled
      /\ Identities(silo.meta.imports) = Identities(imports)
      /\ silo.meta.flags # last.flags)
       => Output(silo) = Output(CompileBlob(imports, nodes, guid, bnodes, last.flags).silo)

\* C8: string-table dedup.  In every compiled silo no two strings of the string
\* table are equal, and every element, text and attribute index of a node record
\* is the offset at which exactly that string of its node starts.
C8_StrtabDedup ==
  silo.valid =>
    /\ \A i, j \in 1..Len(silo.strtab) : i # j => silo.strtab[i] # silo.strtab[j]
    /\ \A k \in NodeRecs(silo) :
         LET rec == silo.nodetab[k]
             bn == BnOf(silo, rec.gn)
         IN  /\ StrAt(silo.strtab, rec.element_name) = <<bn.element>>
             /\ rec.has_text => StrAt(silo.strtab, rec.text) = bn.text
             /\ Len(rec.attrs) = Len(bn.attrs)
             /\ \A i \in 1..Len(rec.attrs) :
                  /\ StrAt(silo.strtab, rec.attrs[i].attr_name) = <<bn.attrs[i].name>>
                  /\ StrAt(silo.strtab, rec.attrs[i].attr_value) = <<bn.attrs[i].value>>

\* C8's case: a silo in which two node records share one element name, with
\* texts and attributes in the table as well
C8_SharedStringCompiled ==
  /\ silo.valid
  /\ \E k1, k2 \in NodeRecs(silo) :
       k1 # k2 /\ silo.nodetab[k1].element_name = silo.nodetab[k2].element_name
  /\ \E k \in NodeRecs(silo) : silo.nodetab[k].has_text /\ silo.nodetab[k].nr_attrs > 0

\* C9: strtab_ntags counts the distinct live tags.  In every compiled header
\* strtab_ntags is the number of distinct element names of the nodes emitted,
\* which are the nodes without IGNORE_CDATA; these names are the first
\* strtab_ntags strings of the table, and nothing else is counted.
C9_NtagsCountsLiveTags ==
  silo.valid =>
    LET unflagged == {n \in 1..Len(silo.meta.tree) : ~HasFlag(BnOf(silo, n), IGNORE_CDATA)}
        tags == {BnOf(silo, n).element : n \in Emitted(silo)}
    IN  /\ Emitted(silo) = unflagged
        /\ silo.hdr.strtab_ntags = Cardinality(tags)
        /\ silo.hdr.strtab_ntags <= Len(silo.strtab)
        /\ {silo.strtab[i] : i \in 1..silo.hdr.strtab_ntags} = tags

\* C9's case: a silo whose forest holds an ignored node with a name no emitted
\* node has, and whose string table holds more than the tags
C9_IgnoredTagCompiled ==
  /\ silo.valid
  /\ silo.hdr.strtab_ntags >= 2
  /\ silo.hdr.strtab_ntags < Len(silo.strtab)
  /\ \E n \in 1..Len(silo.meta.tree) :
       /\ HasFlag(BnOf(silo, n), IGNORE_CDATA)
       /\ \A m \in Emitted(silo) : BnOf(silo, m).element # BnOf(silo, n).element

\* C10: an IGNORE_CDATA subtree is absent from the output.  No node record is
\* written for a node that carries IGNORE_CDATA or lies below one that does, and
\* the sentinels are as many as the nodes outside such subtrees.
C10_IgnoredSubtreeAbsent ==
  silo.valid =>
    /\ \A n \in Emitted(silo) : ~InIgnoredSubtree(silo, n)
    /\ Cardinality(SentinelRecs(silo))
         = Cardinality({n \in 1..Len(silo.meta.tree) : ~InIgnoredSubtree(silo, n)})

\* C11: next-sibling fixup.  After compile the next field of the record of every
\* emitted node is the offset of the record of its first following sibling that
\* does not carry IGNORE_CDATA, and 0 only when there is none.  Stated for the
\* forests in which no node object occurs twice; those are the case of C12.
C11_NextSiblingFixup ==
  (silo.valid /\ ~SharedObjects(silo)) =>
    \A n \in Emitted(silo) :
      LET F == FollowingLive(silo, n)
      IN  silo.nodetab[RecOf(silo, n)].next =
            IF F = {} THEN 0
            ELSE silo.nodetab[RecOf(silo, CHOOSE m \in F : \A j \in F : m <= j)].off

\* C12: parent fixup.  After compile the parent field of the record of every
\* emitted node is 0 when its parent is the root, and the offset of the record
\* emitted for its parent otherwise; this for every record, also for each copy of
\* an info tree shared by several imports and of a node tree imported twice, the
\* copies having records at different offsets.
C12_ParentFixup ==
  silo.valid =>
    /\ \A n \in Emitted(silo) :
         LET p == silo.meta.tree[n].parent
             rec == silo.nodetab[RecOf(silo, n)]
         IN  IF p = 0 THEN rec.parent = 0
             ELSE p \in Emitted(silo) => rec.parent = silo.nodetab[RecOf(silo, p)].off
    /\ \A n, m \in Emitted(silo) :
         n # m => silo.nodetab[RecOf(silo, n)].off # silo.nodetab[RecOf(silo, m)].off

\* C13: the size pass sizes the node table exactly.  In every compiled silo the
\* strtab field of the header, computed by the size pass, is the length of the
\* buffer when the string table is appended to it.
C13_NodetabSizedExactly ==
  silo.valid => silo.hdr.strtab = silo.meta.buflen

====
